---- MODULE Spec2Model ----
(***************************************************************************)
(* A model of the V2EX API client of src/v2ex.py: the envelope checks, the *)
(* reply pagination loop, the text formatter and the bundle builder.       *)
(*                                                                         *)
(* Python strings are TLA+ strings (Len, SubSeq and \o act on them), and   *)
(* an Optional / Any value is a tagged record: None, StrV(s) or IntV(n).     *)
(***************************************************************************)
EXTENDS Integers, Sequences, FiniteSets, TLC

VARIABLES
  pc,        \* position of the running call: idle, topic, loop, exit, format, returned, raised
  op,        \* the public method the caller invoked
  max_pages, \* argument of fetch_replies / build_bundle
  max_replies, \* argument of fetch_replies (None inside build_bundle)
  page,      \* local of fetch_replies
  replies,   \* local of fetch_replies: the accumulated list
  topic,     \* local of build_bundle / result of fetch_topic
  client,    \* the httpx.Client in use by the running call (0: the caller's own)
  sessions,  \* state of every httpx.Client opened by build_bundle so far
  log,       \* the GET requests issued by the running call, in order
  served,    \* the result lists of the reply pages decoded by the running call
  resp,      \* the response to the last request
  exc,       \* the exception in flight or raised
  ret,       \* the value returned to the caller
  ncalls,    \* number of build_bundle calls made so far
  fin,       \* formatter inputs of the last helper application
  fout       \* formatter output of the last helper application

vars == <<pc, op, max_pages, max_replies, page, replies, topic, client, sessions,
          log, served, resp, exc, ret, ncalls, fin, fout>>

clientVars == <<pc, op, max_pages, max_replies, page, replies, topic, client, sessions,
                log, served, resp, exc, ret, ncalls>>

(***************************************************************************)
(* Bounds of the model.                                                    *)
(***************************************************************************)
MaxPages == 4      \* largest max_pages a caller passes
MaxCap == 3        \* largest max_replies a caller passes
MaxCalls == 2      \* build_bundle calls made one after the other on one V2EXClient
MaxCands == 4      \* most candidates handed to _pick_first
MaxChars == 6      \* largest max_chars handed to _truncate

(***************************************************************************)
(* Python values.                                                          *)
(***************************************************************************)
None == [t |-> "none"]
StrV(s) == [t |-> "str", v |-> s]
IntV(n) == [t |-> "int", v |-> n]

Min(a, b) == IF a <= b THEN a ELSE b
Max(a, b) == IF a >= b THEN a ELSE b

\* s[:n] on a str or a list, negative n counting from the end
SliceTo(s, n) ==
  IF n >= 0 THEN SubSeq(s, 1, Min(n, Len(s)))
            ELSE SubSeq(s, 1, Max(0, Len(s) + n))

Whitespace == {" ", "\n", "\t"}

RECURSIVE LStrip(_)
LStrip(s) ==
  IF s = "" THEN s
  ELSE IF SubSeq(s, 1, 1) \in Whitespace THEN LStrip(SubSeq(s, 2, Len(s)))
  ELSE s

RECURSIVE RStrip(_)
RStrip(s) ==
  IF s = "" THEN s
  ELSE IF SubSeq(s, Len(s), Len(s)) \in Whitespace THEN RStrip(SubSeq(s, 1, Len(s) - 1))
  ELSE s

\* str.strip()
Strip(s) == RStrip(LStrip(s))

\* sep.join(parts)
RECURSIVE Join(_, _)
Join(parts, sep) ==
  IF parts = <<>> THEN ""
  ELSE IF Len(parts) = 1 THEN parts[1]
  ELSE parts[1] \o sep \o Join(Tail(parts), sep)

Digit(d) == SubSeq("0123456789", d + 1, d + 1)

RECURSIVE NatToStr(_)
NatToStr(n) == IF n < 10 THEN Digit(n) ELSE NatToStr(n \div 10) \o Digit(n % 10)

\* str(value) of an int or a str
ToStr(value) ==
  IF value.t = "str" THEN value.v
  ELSE IF value.v < 0 THEN "-" \o NatToStr(0 - value.v)
  ELSE NatToStr(value.v)

\* Mutant: the placeholder is never substituted.
OrElse_first(x, y) == x

\* x or y, for strings
OrElse(x, y) == IF x = "" THEN y ELSE x

(***************************************************************************)
(* _truncate and _pick_first.                                              *)
(***************************************************************************)
Truncate(text, max_chars) ==
  IF max_chars = None \/ Len(text) <= max_chars.v THEN text
  ELSE SliceTo(text, max_chars.v - 3) \o "..."

\* Mutant: only the empty string is skipped, a whitespace-only one is not.
RECURSIVE PickFirst_nostrip(_, _)
PickFirst_nostrip(values, default) ==
  IF values = <<>> THEN default
  ELSE LET value == Head(values) IN
       IF value = None THEN PickFirst_nostrip(Tail(values), default)
       ELSE IF value.t = "str" /\ value.v = "" THEN PickFirst_nostrip(Tail(values), default)
       ELSE ToStr(value)

RECURSIVE PickFirst(_, _)
PickFirst(values, default) ==
  IF values = <<>> THEN default
  ELSE LET value == Head(values) IN
       IF value = None THEN PickFirst(Tail(values), default)
       ELSE IF value.t = "str" /\ Strip(value.v) = "" THEN PickFirst(Tail(values), default)
       ELSE ToStr(value)

(***************************************************************************)
(* The model layer: the entities the formatter reads.  A Member or Node is *)
(* None or a record; every scalar field is a Python value.                 *)
(***************************************************************************)
Member(id, username, name) ==
  [t |-> "obj", id |-> IntV(id), username |-> username, name |-> name]

Node(id, title, name) ==
  [t |-> "obj", id |-> IntV(id), title |-> title, name |-> name]

Topic(id, title, content, content_rendered, created, created_at, member, node, node_id) ==
  [id |-> IntV(id), title |-> title, content |-> content,
   content_rendered |-> content_rendered, created |-> created,
   created_at |-> created_at, member |-> member, node |-> node, node_id |-> node_id]

Reply(id, content, content_rendered, created, created_at, member) ==
  [id |-> IntV(id), content |-> content, content_rendered |-> content_rendered,
   created |-> created, created_at |-> created_at, member |-> member]

\* obj.field if obj else None
FieldOf(obj, field) == IF obj = None THEN None ELSE obj[field]

(***************************************************************************)
(* V2EXClient.format_topic and V2EXClient.format_replies.                  *)
(***************************************************************************)
format_topic(t, max_chars) ==
  LET title == PickFirst(<<t.title>>, "")
      content == PickFirst(<<t.content, t.content_rendered>>, "")
      node == PickFirst(<<FieldOf(t.node, "title"), FieldOf(t.node, "name"), t.node_id>>, "")
      author == PickFirst(<<FieldOf(t.member, "username"), FieldOf(t.member, "name"),
                            FieldOf(t.member, "id")>>, "")
      created == PickFirst(<<t.created, t.created_at>>, "")
  IN Strip(Join(<<"Title: " \o title,
                  "Author: " \o author,
                  "Node: " \o node,
                  "Created: " \o created,
                  "Content:\n" \o Truncate(content, max_chars)>>, "\n"))

format_reply_block(idx, reply, max_chars) ==
  LET author == PickFirst(<<FieldOf(reply.member, "username"), FieldOf(reply.member, "name"),
                            FieldOf(reply.member, "id")>>, "")
      created == PickFirst(<<reply.created, reply.created_at>>, "")
      content == PickFirst(<<reply.content, reply.content_rendered>>, "")
  IN Join(<<"[" \o NatToStr(idx) \o "] Author: " \o author,
            "Created: " \o created,
            "Content:\n" \o Truncate(content, max_chars)>>, "\n")

format_replies(rs, max_chars) ==
  Strip(Join([idx \in 1..Len(rs) |-> format_reply_block(idx, rs[idx], max_chars)], "\n\n"))

\* The two section headers of the bundle.  The source writes them in Chinese;
\* the module keeps to ASCII and uses their translations, with the same
\* property the formatter relies on: no leading or trailing whitespace.
TopicHeader == "Article content (topic):"
RepliesHeader == "Comments:"

\* the five parts build_bundle joins
bundle_parts(t, rs) ==
  <<TopicHeader,
    OrElse(format_topic(t, None), "N/A"),
    "",
    RepliesHeader,
    OrElse(format_replies(rs, None), "No replies.")>>

bundle_text(t, rs) == Strip(Join(bundle_parts(t, rs), "\n\n"))

(***************************************************************************)
(* The wire: what the server can answer to one GET.                        *)
(*                                                                         *)
(* A response is a transport failure (client.get raises), or a status and  *)
(* a body.  A body is not JSON, or is an envelope with its three fields:   *)
(*   success  None (ApiResponse does not validate: the flag is missing or  *)
(*            a field has the wrong type) or a bool,                       *)
(*   message  None or a string,                                            *)
(*   result   missing, present and not decodable, or a decodable value.    *)
(***************************************************************************)
BoolV(b) == [t |-> "bool", v |-> b]

Missing == [t |-> "missing"]
Invalid == [t |-> "invalid"]
Valid(x) == [t |-> "valid", v |-> x]

TransportFailure == [kind |-> "transport"]
HttpResponse(status, body) == [kind |-> "http", status |-> status, body |-> body]
NoResponse == [kind |-> "none"]

NotJson == [json |-> FALSE]
Envelope(success, message, result) ==
  [json |-> TRUE, success |-> success, message |-> message, result |-> result]

\* two statuses inside 2xx and one outside
StatusCodes == {200, 201, 404}
SuccessFlags == {None, BoolV(TRUE), BoolV(FALSE)}
Messages == {None, StrV(""), StrV("Rate limited")}

alice == Member(7, StrV("alice"), None)
bob == Member(8, StrV("  "), StrV("Bob"))
anon == Member(9, None, None)

t1 == Topic(1, StrV("Hello"), StrV("body"), None, IntV(100), IntV(200), alice,
            Node(3, StrV("Tech"), StrV("tech")), IntV(3))

TopicPool ==
  { t1,
    Topic(2, None, None, StrV("<p>x</p>"), None, IntV(200), anon, None, IntV(4)),
    Topic(3, StrV("N/A"), StrV(" "), None, None, None, None, None, None) }

r1 == Reply(11, StrV("first"), None, IntV(101), None, alice)
r2 == Reply(12, None, StrV("<p>second</p>"), None, IntV(202), bob)

\* the result lists a reply page can carry: server order is arbitrary, and
\* the same reply may come twice
PageLists == {<<>>, <<r1>>, <<r1, r2>>, <<r2, r1>>, <<r2, r2>>}

TopicBodies ==
  {NotJson} \cup
  {Envelope(s, m, r) : s \in SuccessFlags, m \in Messages,
                       r \in {Missing, Invalid, Valid(t1)}} \cup
  {Envelope(BoolV(TRUE), None, Valid(t)) : t \in TopicPool}

\* every combination of the three fields with one decodable result, and
\* every result list in an envelope that reports success
PageBodies ==
  {NotJson} \cup
  {Envelope(s, m, r) : s \in SuccessFlags, m \in Messages,
                       r \in {Missing, Invalid, Valid(<<r1>>)}} \cup
  {Envelope(BoolV(TRUE), None, Valid(l)) : l \in PageLists}

TopicResponses ==
  {TransportFailure} \cup {HttpResponse(st, b) : st \in StatusCodes, b \in TopicBodies}

PageResponses ==
  {TransportFailure} \cup {HttpResponse(st, b) : st \in StatusCodes, b \in PageBodies}

(***************************************************************************)
(* Exceptions.  kind is the Python class; the spec's HttpError is          *)
(* HTTPStatusError, its ApiError is RuntimeError.  stage tells which model *)
(* a ValidationError comes from.                                           *)
(***************************************************************************)
NoExc == [kind |-> "none", msg |-> "", stage |-> ""]
TransportError == [kind |-> "TransportError", msg |-> "", stage |-> ""]
HTTPStatusError(status) == [kind |-> "HTTPStatusError", msg |-> NatToStr(status), stage |-> ""]
JSONDecodeError == [kind |-> "JSONDecodeError", msg |-> "", stage |-> ""]
ValidationError(stage) == [kind |-> "ValidationError", msg |-> "", stage |-> stage]
RuntimeError(msg) == [kind |-> "RuntimeError", msg |-> msg, stage |-> ""]

DefaultApiMessage == "V2EX API error"

\* Mutant: only a 5xx status raises.
raise_for_status_5xx(r) ==
  IF r.status < 500 THEN NoExc ELSE HTTPStatusError(r.status)

\* response.raise_for_status()
raise_for_status(r) ==
  IF r.status >= 200 /\ r.status <= 299 THEN NoExc ELSE HTTPStatusError(r.status)

\* Mutant: the server's message is dropped.
MessageOr_default(message, default) == default

\* response.message or "V2EX API error"
MessageOr(message, default) ==
  IF message = None THEN default ELSE OrElse(message.v, default)

\* _ensure_success(payload): the exception it raises, NoExc when it returns
ensure_success(payload) ==
  IF payload.success = None THEN ValidationError("ApiResponse")
  ELSE IF ~payload.success.v THEN RuntimeError(MessageOr(payload.message, DefaultApiMessage))
  ELSE NoExc

\* TopicResponse.model_validate(payload).result
TopicResponse_validate(payload) ==
  IF payload.result.t = "valid"
  THEN [exc |-> NoExc, value |-> payload.result.v]
  ELSE [exc |-> ValidationError("TopicResponse"), value |-> None]

\* RepliesResponse.model_validate(payload).result: a missing result is []
RepliesResponse_validate(payload) ==
  IF payload.result.t = "valid" THEN [exc |-> NoExc, value |-> payload.result.v]
  ELSE IF payload.result.t = "missing" THEN [exc |-> NoExc, value |-> <<>>]
  ELSE [exc |-> ValidationError("RepliesResponse"), value |-> None]

\* The body of fetch_topic after client.get: [exc, value]
topic_of(r) ==
  IF r.kind = "transport" THEN [exc |-> TransportError, value |-> None]
  ELSE IF raise_for_status(r) # NoExc THEN [exc |-> raise_for_status(r), value |-> None]
  ELSE IF ~r.body.json THEN [exc |-> JSONDecodeError, value |-> None]
  ELSE IF ensure_success(r.body) # NoExc THEN [exc |-> ensure_success(r.body), value |-> None]
  ELSE TopicResponse_validate(r.body)

\* Mutant: the success flag is checked before the HTTP status.
page_of_reordered(r) ==
  IF r.kind = "transport" THEN [exc |-> TransportError, value |-> None]
  ELSE IF ~r.body.json THEN [exc |-> JSONDecodeError, value |-> None]
  ELSE IF ensure_success(r.body) # NoExc THEN [exc |-> ensure_success(r.body), value |-> None]
  ELSE IF raise_for_status(r) # NoExc THEN [exc |-> raise_for_status(r), value |-> None]
  ELSE RepliesResponse_validate(r.body)

\* One iteration of fetch_replies from client.get to data: [exc, value]
page_of(r) ==
  IF r.kind = "transport" THEN [exc |-> TransportError, value |-> None]
  ELSE IF raise_for_status(r) # NoExc THEN [exc |-> raise_for_status(r), value |-> None]
  ELSE IF ~r.body.json THEN [exc |-> JSONDecodeError, value |-> None]
  ELSE IF ensure_success(r.body) # NoExc THEN [exc |-> ensure_success(r.body), value |-> None]
  ELSE RepliesResponse_validate(r.body)

(***************************************************************************)
(* The calls.                                                              *)
(***************************************************************************)
MaxPagesArgs == -1..MaxPages
MaxRepliesArgs == {None} \cup {IntV(n) : n \in -1..MaxCap}

Request(url, p) ==
  [url |-> url, p |-> p, client |-> client,
   open |-> client = 0 \/ sessions[client] = "open"]

NoTopic == None
NoInput == [fn |-> "none"]
NoReturn == [t |-> "nothing"]
Returned(x) == [t |-> "value", v |-> x]

Init ==
  /\ pc = "idle"
  /\ op = "none"
  /\ max_pages = 0
  /\ max_replies = None
  /\ page = 1
  /\ replies = <<>>
  /\ topic = NoTopic
  /\ client = 0
  /\ sessions = <<>>
  /\ log = <<>>
  /\ served = <<>>
  /\ resp = NoResponse
  /\ exc = NoExc
  /\ ret = NoReturn
  /\ ncalls = 0
  /\ fin = NoInput
  /\ fout = ""

CanCall == pc \in {"idle", "returned", "raised"}

\* what every call starts from: nothing fetched, nothing raised
Enter(name, mp, mr) ==
  /\ op' = name
  /\ max_pages' = mp
  /\ max_replies' = mr
  /\ page' = 1
  /\ replies' = <<>>
  /\ topic' = NoTopic
  /\ log' = <<>>
  /\ served' = <<>>
  /\ resp' = NoResponse
  /\ exc' = NoExc
  /\ ret' = NoReturn

\* build_bundle(topic_id, max_pages): "with httpx.Client() as client" opens
\* a session of its own
CallBuildBundle ==
  /\ CanCall
  /\ ncalls < MaxCalls
  /\ ncalls' = ncalls + 1
  /\ \E mp \in MaxPagesArgs : Enter("build_bundle", mp, None)
  /\ sessions' = Append(sessions, "open")
  /\ client' = Len(sessions) + 1
  /\ pc' = "topic"
  /\ UNCHANGED <<fin, fout>>

\* fetch_topic(client, topic_id) called directly, on the caller's client
CallFetchTopic ==
  /\ CanCall
  /\ Enter("fetch_topic", 0, None)
  /\ client' = 0
  /\ pc' = "topic"
  /\ UNCHANGED <<sessions, ncalls, fin, fout>>

\* fetch_replies(client, topic_id, max_pages, max_replies) called directly
CallFetchReplies ==
  /\ CanCall
  /\ \E mp \in MaxPagesArgs, mr \in MaxRepliesArgs : Enter("fetch_replies", mp, mr)
  /\ client' = 0
  /\ pc' = "loop"
  /\ UNCHANGED <<sessions, ncalls, fin, fout>>

\* Mutant: a failed request is issued again.
Raise_retry == pc

\* where an exception raised inside a fetch goes: through the with block of
\* build_bundle, or straight to the caller
Raise == IF op = "build_bundle" THEN "exit" ELSE "raised"

\* fetch_topic: one GET, then the checks
FetchTopic ==
  /\ pc = "topic"
  /\ \E r \in TopicResponses :
       LET got == topic_of(r) IN
       /\ log' = Append(log, Request("topic", 0))
       /\ resp' = r
       /\ IF got.exc # NoExc
          THEN /\ exc' = got.exc
               /\ pc' = Raise
               /\ UNCHANGED <<topic, ret>>
          ELSE /\ topic' = got.value
               /\ exc' = NoExc
               /\ IF op = "build_bundle"
                  THEN pc' = "loop" /\ ret' = ret
                  ELSE pc' = "returned" /\ ret' = Returned(got.value)
  /\ UNCHANGED <<op, max_pages, max_replies, page, replies, client, sessions, served,
                 ncalls, fin, fout>>

\* "return replies" of fetch_replies
ReturnReplies(rs) ==
  IF op = "build_bundle"
  THEN pc' = "exit" /\ ret' = ret
  ELSE pc' = "returned" /\ ret' = Returned(rs)

\* Mutant: the cap is reached only when exceeded.
CapReached_strict(rs, mr) == mr # None /\ Len(rs) > mr.v

\* the cap test of the loop
CapReached(rs, mr) == mr # None /\ Len(rs) >= mr.v

\* Mutant: every other page is skipped.
NextPage_skip(p) == p + 2

\* page += 1
NextPage(p) == p + 1

\* one iteration of the while loop of fetch_replies
FetchPage ==
  /\ pc = "loop"
  /\ page <= max_pages
  /\ \E r \in PageResponses :
       LET got == page_of(r) IN
       /\ log' = Append(log, Request("replies", page))
       /\ resp' = r
       /\ IF got.exc # NoExc
          THEN /\ exc' = got.exc
               /\ pc' = Raise
               /\ UNCHANGED <<page, replies, served, ret>>
          ELSE /\ exc' = NoExc
               /\ served' = Append(served, got.value)
               /\ IF got.value = <<>>
                  THEN /\ ReturnReplies(replies)
                       /\ UNCHANGED <<page, replies>>
                  ELSE LET extended == replies \o got.value IN
                       IF CapReached(extended, max_replies)
                       THEN /\ replies' = SliceTo(extended, max_replies.v)
                            /\ ReturnReplies(replies')
                            /\ page' = page
                       ELSE /\ replies' = extended
                            /\ page' = NextPage(page)
                            /\ pc' = "loop"
                            /\ ret' = ret
  /\ UNCHANGED <<op, max_pages, max_replies, topic, client, sessions, ncalls, fin, fout>>

\* the while condition fails: page > max_pages
LoopEnd ==
  /\ pc = "loop"
  /\ ~(page <= max_pages)
  /\ ReturnReplies(replies)
  /\ UNCHANGED <<op, max_pages, max_replies, page, replies, topic, client, sessions,
                 log, served, resp, exc, ncalls, fin, fout>>

\* Mutant: the session is closed on the normal path only.
ExitWith_leak ==
  /\ pc = "exit"
  /\ sessions' = IF exc # NoExc THEN sessions ELSE [sessions EXCEPT ![client] = "closed"]
  /\ pc' = IF exc # NoExc THEN "raised" ELSE "format"
  /\ UNCHANGED <<op, max_pages, max_replies, page, replies, topic, client,
                 log, served, resp, exc, ret, ncalls, fin, fout>>

\* leaving the with block of build_bundle, normally or by an exception
ExitWith ==
  /\ pc = "exit"
  /\ sessions' = [sessions EXCEPT ![client] = "closed"]
  /\ pc' = IF exc # NoExc THEN "raised" ELSE "format"
  /\ UNCHANGED <<op, max_pages, max_replies, page, replies, topic, client,
                 log, served, resp, exc, ret, ncalls, fin, fout>>

\* the formatting and the return of build_bundle
Format ==
  /\ pc = "format"
  /\ ret' = Returned(bundle_text(topic, replies))
  /\ pc' = "returned"
  /\ UNCHANGED <<op, max_pages, max_replies, page, replies, topic, client, sessions,
                 log, served, resp, exc, ncalls, fin, fout>>

\* fetch_topic and fetch_replies called by a caller that holds a client
Next ==
  \/ CallFetchTopic
  \/ CallFetchReplies
  \/ FetchTopic
  \/ FetchPage
  \/ LoopEnd

Spec == Init /\ [][Next]_vars

\* build_bundle called, as the agent's tool does, any number of times
NextBundle ==
  \/ CallBuildBundle
  \/ FetchTopic
  \/ FetchPage
  \/ LoopEnd
  \/ ExitWith
  \/ Format

SpecBundle == Init /\ [][NextBundle]_vars

(***************************************************************************)
(* The formatter helpers applied on their own: _truncate, _pick_first,     *)
(* format_topic and format_replies are pure, so a step applies one of them *)
(* to inputs drawn from bounded sets and records the result.  One          *)
(* behaviour is one application.                                           *)
(***************************************************************************)
Texts == {"", "hi", "abc", "abcd", "hello", "hello world"}
MaxCharsArgs == {None} \cup {IntV(n) : n \in 0..MaxChars}
Candidates == {None, StrV(""), StrV(" \n"), StrV("x"), StrV("y"), IntV(0), IntV(42)}
Defaults == {"", "N/A"}
CandidateLists == UNION {[1..n -> Candidates] : n \in 0..MaxCands}

ApplyTruncate ==
  /\ fin = NoInput
  /\ \E text \in Texts, mc \in MaxCharsArgs :
       /\ fin' = [fn |-> "truncate", text |-> text, max_chars |-> mc]
       /\ fout' = Truncate(text, mc)
  /\ UNCHANGED clientVars

ApplyPickFirst ==
  /\ fin = NoInput
  /\ \E values \in CandidateLists, default \in Defaults :
       /\ fin' = [fn |-> "pick_first", values |-> values, default |-> default]
       /\ fout' = PickFirst(values, default)
  /\ UNCHANGED clientVars

ApplyFormatTopic ==
  /\ fin = NoInput
  /\ \E t \in TopicPool, mc \in MaxCharsArgs :
       /\ fin' = [fn |-> "format_topic", topic |-> t, max_chars |-> mc]
       /\ fout' = format_topic(t, mc)
  /\ UNCHANGED clientVars

ApplyFormatReplies ==
  /\ fin = NoInput
  /\ \E rs \in PageLists, mc \in MaxCharsArgs :
       /\ fin' = [fn |-> "format_replies", replies |-> rs, max_chars |-> mc]
       /\ fout' = format_replies(rs, mc)
  /\ UNCHANGED clientVars

NextFormat ==
  \/ ApplyTruncate
  \/ ApplyPickFirst
  \/ ApplyFormatTopic
  \/ ApplyFormatReplies

SpecFormat == Init /\ [][NextFormat]_vars

(***************************************************************************)
(* Properties.                                                             *)
(***************************************************************************)
RECURSIVE Concat(_)
Concat(lists) == IF lists = <<>> THEN <<>> ELSE Head(lists) \o Concat(Tail(lists))

Last(s) == s[Len(s)]

Is2xx(r) == r.kind = "http" /\ r.status \in 200..299

\* an envelope that says success=false, in a 2xx response
ApiFailure(r) == Is2xx(r) /\ r.body.json /\ r.body.success = BoolV(FALSE)

\* a response fetch_replies cannot take a page from
PageRequestFails(r) ==
  \/ r.kind = "transport"
  \/ /\ r.kind = "http"
     /\ \/ r.status \notin 200..299
        \/ ~r.body.json
        \/ r.body.success # BoolV(TRUE)
        \/ r.body.result = Invalid

\* a response fetch_topic cannot take a Topic from
TopicRequestFails(r) ==
  \/ r.kind = "transport"
  \/ /\ r.kind = "http"
     /\ \/ r.status \notin 200..299
        \/ ~r.body.json
        \/ r.body.success # BoolV(TRUE)
        \/ r.body.result \in {Missing, Invalid}

\* C1: fetch_replies without a cap, every page so far decoded: the requests
\* are pages 1, 2, 3, ... in order, each once and none beyond max_pages; no
\* page is requested after an empty one; the loop is left only after an
\* empty page or after page max_pages; the list returned is the
\* concatenation of the pages in page order and server order.
C1_PagesInOrderConcatenated ==
  (op = "fetch_replies" /\ max_replies = None /\ exc = NoExc) =>
    /\ \A i \in 1..Len(log) : log[i].url = "replies" /\ log[i].p = i
    /\ Len(log) <= Max(max_pages, 0)
    /\ Len(served) = Len(log)
    /\ \A i \in 1..(Len(served) - 1) : served[i] # <<>>
    /\ replies = Concat(served)
    /\ pc = "loop" => (served = <<>> \/ Last(served) # <<>>)
    /\ pc = "returned" =>
         /\ ret = Returned(Concat(served))
         /\ \/ served # <<>> /\ Last(served) = <<>>
            \/ Len(log) = Max(max_pages, 0)

\* two full pages then an empty one, with a page budget left: three
\* requests and four replies
C1_Witness ==
  /\ pc = "returned" /\ op = "fetch_replies" /\ max_replies = None
  /\ max_pages = 4
  /\ served = << <<r2, r1>>, <<r1, r2>>, <<>> >>
  /\ Len(log) = 3
  /\ ret = Returned(<<r2, r1, r1, r2>>)

\* C2 as stated: with any max_replies, once the count after a page reaches
\* max_replies, the call has returned exactly max_replies replies, the
\* first ones in server order, and no earlier page had reached the cap.
\* (Stated for a page that brought replies, where the truncation acts.)
C2_AsStated ==
  (op = "fetch_replies" /\ max_replies # None /\ exc = NoExc /\ served # <<>>
     /\ Len(Concat(served)) >= max_replies.v /\ Last(served) # <<>>) =>
    /\ pc = "returned"
    /\ Len(ret.v) = max_replies.v
    /\ ret.v = SubSeq(Concat(served), 1, max_replies.v)
    /\ Len(log) = Len(served)
    /\ \A k \in 1..(Len(served) - 1) : Len(Concat(SubSeq(served, 1, k))) < max_replies.v

\* C2 amended: the same for a max_replies that is not negative.
C2_CapTruncates ==
  (op = "fetch_replies" /\ max_replies # None /\ exc = NoExc /\ served # <<>>
     /\ max_replies.v >= 0
     /\ Len(Concat(served)) >= max_replies.v) =>
    /\ pc = "returned"
    /\ Len(ret.v) = max_replies.v
    /\ ret.v = SubSeq(Concat(served), 1, max_replies.v)
    /\ Len(log) = Len(served)
    /\ \A k \in 1..(Len(served) - 1) : Len(Concat(SubSeq(served, 1, k))) < max_replies.v

\* a cap of 1 and a first page of two replies: one request, one reply
C2_Witness ==
  /\ pc = "returned" /\ op = "fetch_replies" /\ max_replies = IntV(1)
  /\ served = << <<r2, r1>> >>
  /\ Len(log) = 1
  /\ ret = Returned(<<r2>>)

\* C3: when the response to a page request is a failure (transport, status
\* outside 2xx, body not JSON, success not true, result not decodable),
\* fetch_replies has raised, has returned nothing, and the failing request
\* is the last one it issued.
C3_PageFailureFailsTheCall ==
  (op = "fetch_replies" /\ resp.kind # "none" /\ PageRequestFails(resp)) =>
    /\ pc = "raised"
    /\ exc # NoExc
    /\ ret = NoReturn
    /\ Len(log) = Len(served) + 1
    /\ Last(log).p = Len(log)

\* the second page fails with a 404 after the first gave replies
C3_Witness ==
  /\ pc = "raised" /\ op = "fetch_replies"
  /\ Len(served) = 1 /\ replies # <<>>
  /\ Len(log) = 2
  /\ resp.kind = "http" /\ resp.status = 404
  /\ ret = NoReturn

\* C4 as stated: a 2xx envelope with success=false and a message fails
\* with an API error whose message is exactly that message.
C4_AsStated ==
  (op \in {"fetch_topic", "fetch_replies"} /\ ApiFailure(resp)
     /\ resp.body.message # None) =>
    /\ exc.kind = "RuntimeError"
    /\ exc.msg = resp.body.message.v

\* C4 amended: a 2xx envelope with success=false fails with an API error
\* and returns nothing; the error's message is the server's message when
\* that is a non-empty string, and "V2EX API error" when it is absent or
\* the empty string.
C4_ApiErrorMessage ==
  (op \in {"fetch_topic", "fetch_replies"} /\ ApiFailure(resp)) =>
    /\ pc = "raised"
    /\ ret = NoReturn
    /\ exc.kind = "RuntimeError"
    /\ exc.msg = IF resp.body.message \in {None, StrV("")} THEN "V2EX API error"
                 ELSE resp.body.message.v

\* fetch_topic answered 200, success=false, message "Rate limited"
C4_Witness ==
  /\ pc = "raised" /\ op = "fetch_topic"
  /\ ApiFailure(resp) /\ resp.body.message = StrV("Rate limited")
  /\ exc = RuntimeError("Rate limited")

\* C10: the checks come in the order status, success flag, result.  A
\* response outside 2xx fails as an HTTP error whatever its body; a 2xx
\* envelope with success=false fails as an API error whatever its result;
\* a validation error for result is raised only for a 2xx envelope with
\* success=true.
C10_CheckOrder ==
  (op \in {"fetch_topic", "fetch_replies"} /\ resp.kind = "http") =>
    /\ ~Is2xx(resp) => exc.kind = "HTTPStatusError"
    /\ ApiFailure(resp) => exc.kind = "RuntimeError"
    /\ (exc.kind = "ValidationError" /\ exc.stage \in {"TopicResponse", "RepliesResponse"}) =>
         (Is2xx(resp) /\ resp.body.json /\ resp.body.success = BoolV(TRUE)
            /\ resp.body.result.t # "valid")

\* a 404 page whose body is a success=false envelope with no result
C10_Witness ==
  /\ op = "fetch_replies" /\ pc = "raised"
  /\ resp.kind = "http" /\ resp.status = 404
  /\ resp.body.json /\ resp.body.success = BoolV(FALSE) /\ resp.body.result = Missing
  /\ exc.kind = "HTTPStatusError"

\* C5: every build_bundle call opens one session of its own; the session
\* is open while the call fetches and closed once the call has returned or
\* raised, whether the topic request or a reply page failed or nothing
\* did; every request of the call was issued on the call's own session
\* while it was open; the sessions of earlier calls stay closed.
C5_SessionReleased ==
  /\ Len(sessions) = ncalls
  /\ op = "build_bundle" =>
       /\ client = ncalls
       /\ pc \in {"topic", "loop", "exit"} => sessions[client] = "open"
       /\ pc \in {"returned", "raised"} => sessions[client] = "closed"
       /\ \A i \in 1..Len(log) : log[i].client = client /\ log[i].open
  /\ \A i \in 1..Len(sessions) : i # client => sessions[i] = "closed"

\* the second call failed on its second reply page and has raised
C5_Witness ==
  /\ op = "build_bundle" /\ pc = "raised"
  /\ ncalls = 2 /\ client = 2
  /\ Len(log) = 3 /\ Last(log).url = "replies"
  /\ sessions = <<"closed", "closed">>

\* C6: build_bundle requests the topic first and reply pages 1, 2, ...
\* after it, each request once, and a reply page only with the topic in
\* hand; when the response to the last request is a failure the call is on
\* its way out with the exception and has returned nothing, and a call
\* that formats or has returned has no exception.
C6_FirstFailureAborts ==
  op = "build_bundle" =>
    /\ \A i \in 1..Len(log) :
         IF i = 1 THEN log[i].url = "topic"
         ELSE log[i].url = "replies" /\ log[i].p = i - 1
    /\ Len(log) >= 2 => topic # NoTopic
    /\ Len(log) = (IF topic = NoTopic THEN 0 ELSE 1) + Len(served)
                   + (IF exc = NoExc THEN 0 ELSE 1)
    /\ (resp.kind # "none" /\
        IF Len(log) = 1 THEN TopicRequestFails(resp) ELSE PageRequestFails(resp)) =>
         /\ exc # NoExc
         /\ pc \in {"exit", "raised"}
         /\ ret = NoReturn
    /\ exc # NoExc => (pc \in {"exit", "raised"} /\ ret = NoReturn)
    /\ pc \in {"format", "returned"} => exc = NoExc
    /\ pc = "returned" => ret.t = "value"

\* the topic request failed: one request, no reply page, nothing returned
C6_Witness ==
  /\ op = "build_bundle" /\ pc = "raised"
  /\ Len(log) = 1 /\ log[1].url = "topic"
  /\ resp.kind = "http" /\ resp.status = 200 /\ resp.body.json
  /\ resp.body.success = BoolV(FALSE)
  /\ exc.kind = "RuntimeError"
  /\ ret = NoReturn

StartsWith(s, prefix) == Len(s) >= Len(prefix) /\ SubSeq(s, 1, Len(prefix)) = prefix
EndsWith(s, suffix) ==
  Len(s) >= Len(suffix) /\ SubSeq(s, Len(s) - Len(suffix) + 1, Len(s)) = suffix

\* C7: a build_bundle call that returns with an empty reply list (first
\* page empty, or max_pages <= 0) returns a document that ends with the
\* replies header followed by exactly "No replies."; and when the topic
\* has a title the section after the topic header is not "N/A".
C7_NoRepliesPlaceholder ==
  (op = "build_bundle" /\ pc = "returned") =>
    /\ replies = <<>> =>
         EndsWith(ret.v, "\n\n" \o RepliesHeader \o "\n\n" \o "No replies.")
    /\ topic.title # None =>
         /\ StartsWith(ret.v, TopicHeader \o "\n\n")
         /\ ~StartsWith(ret.v, TopicHeader \o "\n\n" \o "N/A" \o "\n\n")

\* a titled topic whose first reply page is empty
C7_Witness ==
  /\ op = "build_bundle" /\ pc = "returned"
  /\ max_pages = 2 /\ served = << <<>> >> /\ replies = <<>>
  /\ topic.title = StrV("Hello")
  /\ EndsWith(ret.v, RepliesHeader \o "\n\n" \o "No replies.")

\* C8 as stated: _truncate returns the text unchanged when max_chars is
\* absent or the text is no longer than max_chars, and otherwise the first
\* max_chars - 3 characters followed by "...", never more than max_chars
\* characters.
C8_TruncateRule ==
  fin.fn = "truncate" =>
    IF fin.max_chars = None \/ Len(fin.text) <= fin.max_chars.v
    THEN fout = fin.text
    ELSE /\ Len(fout) <= fin.max_chars.v
         /\ fout = SubSeq(fin.text, 1, fin.max_chars.v - 3) \o "..."

\* every character of s is whitespace (so is the empty string)
Blank(s) == \A i \in 1..Len(s) : SubSeq(s, i, i) \in Whitespace

Usable(value) == value # None /\ ~(value.t = "str" /\ Blank(value.v))

\* C9: _pick_first returns the string form of the first candidate that is
\* neither None nor an empty or whitespace-only string, and the default
\* when there is no such candidate.
C9_PickFirstRule ==
  fin.fn = "pick_first" =>
    LET usable == {i \in 1..Len(fin.values) : Usable(fin.values[i])} IN
    IF usable = {} THEN fout = fin.default
    ELSE LET first == CHOOSE i \in usable : \A j \in usable : i <= j IN
         /\ fin.values[first].t = "str" => fout = fin.values[first].v
         /\ fin.values[first] = IntV(0) => fout = "0"
         /\ fin.values[first] = IntV(42) => fout = "42"

\* pick_first("", None, "x", "y") is "x"
C9_Witness ==
  /\ fin = [fn |-> "pick_first", values |-> <<StrV(""), None, StrV("x"), StrV("y")>>,
            default |-> ""]
  /\ fout = "x"

====
